---- MODULE Spec2Model ----
(***************************************************************************)
(* A model of nitro-enclave-utils: the enclave service (enclave.go) and    *)
(* its attestation endpoint (getAttestationHandler and attest).            *)
(*                                                                         *)
(* Byte strings are sequences of integers 0..255, text is a sequence of    *)
(* one-character strings.  A Go slice that may be nil is a record          *)
(* [isNil, bytes].  A SHA-256 digest is the tagged value <<"sha256", d>>   *)
(* of the DER identity d it was computed over; the zero value of a         *)
(* [32]byte array is ZeroFpr.                                              *)
(***************************************************************************)
EXTENDS Integers, Sequences, FiniteSets, TLC

VARIABLES
    \* ---- Enclave (enclave.go) ----
    useACME,      \* cfg.UseACME
    startPc,      \* position of Start
    steps,        \* the steps of Start executed so far, in order
    certFpr,      \* Enclave.certFpr
    tlsConfig,    \* Enclave.httpSrv.TLSConfig
    handlerHash,  \* certHash captured by the registered attestation handler
    routes,       \* routes registered on the router
    gpc,          \* position of genSelfSignedCert
    pemCert,      \* genSelfSignedCert's pemCert
    \* ---- setCertFingerprint's frame ----
    fpc,          \* position of setCertFingerprint
    rawData,      \* its rawData
    fInput,       \* the buffer it was called with
    fOldFpr,      \* certFpr when it was called
    fResult,      \* its return value
    fCaller,      \* who called it
    \* ---- external issuance (setupAcme) ----
    cache,        \* the autocert cache entry of cfg.FQDN
    acmeCert,     \* the certificate certManager.GetCertificate serves
    pollerPc,     \* position of the cache-poll goroutine
    listenerPc,   \* position of the HTTP-01 listener goroutine
    polls,        \* failed cache queries so far (capped)
    \* ---- one attestation request per r ----
    hpc,          \* position of the handler and of attest
    req,          \* the request
    rawNonce,     \* the handler's rawNonce
    call,         \* the arguments attest was called with
    sess,         \* the NSM session attest holds: opens, sends, closes
    sentReq,      \* the request.Attestation given to Send
    sendErr,      \* whether Send returned an error
    res,          \* the response Send returned
    ret,          \* attest's return value
    closeLog,     \* whether the deferred close logged a failure
    resp          \* the HTTP response written

enclaveVars == <<useACME, startPc, steps, certFpr, tlsConfig, handlerHash, routes, gpc, pemCert>>
fprVars == <<fpc, rawData, fInput, fOldFpr, fResult, fCaller>>
acmeVars == <<cache, acmeCert, pollerPc, listenerPc, polls>>
reqVars == <<hpc, req, rawNonce, call, sess, sentReq, sendErr, res, ret, closeLog, resp>>
vars == <<enclaveVars, fprVars, acmeVars, reqVars>>

(***************************************************************************)
(* Values                                                                  *)
(***************************************************************************)
NilSlice == [isNil |-> TRUE, bytes |-> <<>>]
Slice(b) == [isNil |-> FALSE, bytes |-> b]

ZeroFpr == <<"zero", "">>
Sha256(der) == <<"sha256", der>>

Rep(c, n) == [i \in 1..n |-> c]

RECURSIVE Concat(_)
Concat(ss) == IF Len(ss) = 0 THEN <<>> ELSE Head(ss) \o Concat(Tail(ss))

(***************************************************************************)
(* The attestation endpoint: constants and pure functions                  *)
(***************************************************************************)
nonceLen == 40

errMethodNotGET == "only HTTP GET requests are allowed"
errBadForm == "failed to parse POST form data"
errNoNonce == "could not find nonce in URL query parameters"
errBadNonceFormat == "unexpected nonce format; must be 40-digit hex string"
errFailedAttestation == "failed to obtain attestation document from hypervisor"
errNoAttestation == "NSM device did not return an attestation"
errOpenSession == "failed to open NSM session"

StatusOK == 200
StatusBadRequest == 400
StatusMethodNotAllowed == 405
StatusInternalServerError == 500

Digits == {"0", "1", "2", "3", "4", "5", "6", "7", "8", "9"}
LowerAF == {"a", "b", "c", "d", "e", "f"}
UpperAF == {"A", "B", "C", "D", "E", "F"}

\* The character class [a-f0-9] of nonceRegExp.
NonceClass == LowerAF \cup Digits

\* regexp.MatchString(nonceRegExp, s): the pattern "[a-f0-9]{40}" carries no
\* anchors, so it matches when any nonceLen consecutive characters of s are in
\* the class.
MatchNonceRegExp(s) ==
    \E i \in 1..(Len(s) - nonceLen + 1) :
        \A j \in i..(i + nonceLen - 1) : s[j] \in NonceClass

\* encoding/hex fromHexChar: both cases are accepted.
IsHexChar(c) == c \in Digits \cup LowerAF \cup UpperAF
fromHexChar(c) ==
    CASE c = "0" -> 0 [] c = "1" -> 1 [] c = "2" -> 2 [] c = "3" -> 3
      [] c = "4" -> 4 [] c = "5" -> 5 [] c = "6" -> 6 [] c = "7" -> 7
      [] c = "8" -> 8 [] c = "9" -> 9
      [] c \in {"a", "A"} -> 10 [] c \in {"b", "B"} -> 11
      [] c \in {"c", "C"} -> 12 [] c \in {"d", "D"} -> 13
      [] c \in {"e", "E"} -> 14 [] c \in {"f", "F"} -> 15

\* hex.DecodeString(s): an error on a character that is no hex digit or on an
\* odd length, else one byte per pair of digits.
DecodeString(s) ==
    IF (\E i \in 1..Len(s) : ~IsHexChar(s[i])) \/ Len(s) % 2 = 1
    THEN [err |-> TRUE, bytes |-> <<>>]
    ELSE [err |-> FALSE,
          bytes |-> [i \in 1..(Len(s) \div 2) |->
                        16 * fromHexChar(s[2 * i - 1]) + fromHexChar(s[2 * i])]]

\* base64.StdEncoding: the alphabet, and "=" padding.
encodeStd ==
    << "A", "B", "C", "D", "E", "F", "G", "H", "I", "J", "K", "L", "M", "N", "O", "P",
       "Q", "R", "S", "T", "U", "V", "W", "X", "Y", "Z", "a", "b", "c", "d", "e", "f",
       "g", "h", "i", "j", "k", "l", "m", "n", "o", "p", "q", "r", "s", "t", "u", "v",
       "w", "x", "y", "z", "0", "1", "2", "3", "4", "5", "6", "7", "8", "9", "+", "/" >>

B64Char(v) == encodeStd[(v % 64) + 1]

RECURSIVE EncodeToString(_)
EncodeToString(src) ==
    IF Len(src) = 0 THEN <<>>
    ELSE IF Len(src) = 1 THEN
        LET val == src[1] * 65536
        IN  <<B64Char(val \div 262144), B64Char(val \div 4096), "=", "=">>
    ELSE IF Len(src) = 2 THEN
        LET val == src[1] * 65536 + src[2] * 256
        IN  <<B64Char(val \div 262144), B64Char(val \div 4096), B64Char(val \div 64), "=">>
    ELSE
        LET val == src[1] * 65536 + src[2] * 256 + src[3]
        IN  <<B64Char(val \div 262144), B64Char(val \div 4096), B64Char(val \div 64), B64Char(val)>>
            \o EncodeToString(SubSeq(src, 4, Len(src)))

\* http.Error(w, msg, code): the status, and the message followed by a newline.
HttpError(msg, code) == [status |-> code, body |-> <<msg, "\n">>]
\* WriteDoc, had the handler written the encoding with fmt.Fprint: no newline.
WriteDoc_noNewline(rawDoc) == [status |-> StatusOK, body |-> EncodeToString(rawDoc)]
\* fmt.Fprintln(w, b64Doc) on a response with no status written yet.
WriteDoc(rawDoc) == [status |-> StatusOK, body |-> EncodeToString(rawDoc) \o <<"\n">>]
NoResponse == [status |-> 0, body |-> <<>>]

(***************************************************************************)
(* Inputs                                                                  *)
(***************************************************************************)
MaxAffix == 1

SeqsUpTo(S, n) == UNION {[1..k -> S] : k \in 0..n}

\* Characters put before and after a nonce body: a lowercase hex digit, an
\* uppercase hex digit, a character that is no hex digit.
AffixChars == {"a", "A", "g"}
Affixes == SeqsUpTo(AffixChars, MaxAffix)

NonceBodies ==
    { Rep("a", nonceLen),
      Concat(Rep(<<"a", "1", "b", "2", "c", "3", "d", "4", "e", "5">>, nonceLen \div 10)),
      Rep("0", nonceLen - 1),
      Rep("A", nonceLen),
      <<"x", "y", "z">>,
      <<>> }

Nonces == {pre \o body \o suf : pre \in Affixes, body \in NonceBodies, suf \in Affixes}

\* The URL query: with or without a nonce parameter.
Queries == {[hasNonce |-> FALSE, nonce |-> <<>>]} \cup {[hasNonce |-> TRUE, nonce |-> n] : n \in Nonces}
Methods == {"GET", "POST"}
Requests == [method : Methods, formOk : BOOLEAN, query : Queries]
NoRequest == [method |-> "", formOk |-> TRUE, query |-> [hasNonce |-> FALSE, nonce |-> <<>>]]

\* Attestation documents the device may return (the octets of "", "f", "fo",
\* "foo", "foob").
Docs == {<<>>, <<102>>, <<102, 111>>, <<102, 111, 111>>, <<102, 111, 111, 98>>}

\* The response of the NSM device: the error field, the attestation, its document.
Payloads ==
    {[error |-> e, hasAttestation |-> FALSE, document |-> NilSlice] : e \in {"", "InternalError"}}
    \cup {[error |-> e, hasAttestation |-> TRUE, document |-> d] :
            e \in {"", "InternalError"}, d \in {NilSlice} \cup {Slice(b) : b \in Docs}}
NoPayload == [error |-> "", hasAttestation |-> FALSE, document |-> NilSlice]

Reqs == {"r1", "r2"}
NoHandler == <<"none", "">>
NoCall == [made |-> FALSE, nonce |-> <<>>, userData |-> ZeroFpr, publicKey |-> NilSlice]
NoSent == [sent |-> FALSE, Nonce |-> <<>>, UserData |-> ZeroFpr, PublicKey |-> NilSlice]
NoSession == [opens |-> 0, sends |-> 0, closes |-> 0]
NoReturn == [returned |-> FALSE, doc |-> NilSlice, isErr |-> FALSE, msg |-> ""]
Return(doc, isErr, msg) == [returned |-> TRUE, doc |-> doc, isErr |-> isErr, msg |-> msg]

(***************************************************************************)
(* getAttestationHandler: the handler, one action per check                *)
(***************************************************************************)
\* log.Fatal ends the process, and every goroutine with it.
Alive == startPc # "fatal"
At(r, pc) == Alive /\ hpc[r] = pc

Respond(r, response) ==
    /\ resp' = [resp EXCEPT ![r] = response]
    /\ hpc' = [hpc EXCEPT ![r] = "done"]

Goto(r, pc) ==
    /\ hpc' = [hpc EXCEPT ![r] = pc]
    /\ UNCHANGED resp

\* The handler is invoked with request q.
Receive(r, q) ==
    /\ At(r, "idle")
    /\ handlerHash # NoHandler
    /\ req' = [req EXCEPT ![r] = q]
    /\ Goto(r, "method")
    /\ UNCHANGED <<enclaveVars, fprVars, acmeVars, rawNonce, call, sess, sentReq, sendErr, res, ret, closeLog>>

\* if r.Method != http.MethodGet
CheckMethod(r) ==
    /\ At(r, "method")
    /\ IF req[r].method # "GET"
       THEN Respond(r, HttpError(errMethodNotGET, StatusMethodNotAllowed))
       ELSE Goto(r, "form")
    /\ UNCHANGED <<enclaveVars, fprVars, acmeVars, req, rawNonce, call, sess, sentReq, sendErr, res, ret, closeLog>>

\* if err := r.ParseForm(); err != nil
ParseForm(r) ==
    /\ At(r, "form")
    /\ IF ~req[r].formOk
       THEN Respond(r, HttpError(errBadForm, StatusBadRequest))
       ELSE Goto(r, "nonce")
    /\ UNCHANGED <<enclaveVars, fprVars, acmeVars, req, rawNonce, call, sess, sentReq, sendErr, res, ret, closeLog>>

\* r.URL.Query().Get("nonce"): the empty string when there is no such parameter.
QueryGet(q) == IF q.hasNonce THEN q.nonce ELSE <<>>

\* GetNonce, had it answered with the message of the format check.
GetNonce_formatMessage(r) ==
    /\ At(r, "nonce")
    /\ IF QueryGet(req[r].query) = <<>>
       THEN Respond(r, HttpError(errBadNonceFormat, StatusBadRequest))
       ELSE Goto(r, "regexp")
    /\ UNCHANGED <<enclaveVars, fprVars, acmeVars, req, rawNonce, call, sess, sentReq, sendErr, res, ret, closeLog>>

\* if nonce == ""
GetNonce(r) ==
    /\ At(r, "nonce")
    /\ IF QueryGet(req[r].query) = <<>>
       THEN Respond(r, HttpError(errNoNonce, StatusBadRequest))
       ELSE Goto(r, "regexp")
    /\ UNCHANGED <<enclaveVars, fprVars, acmeVars, req, rawNonce, call, sess, sentReq, sendErr, res, ret, closeLog>>

\* if valid, _ := regexp.MatchString(nonceRegExp, nonce); !valid
MatchNonce(r) ==
    /\ At(r, "regexp")
    /\ IF ~MatchNonceRegExp(QueryGet(req[r].query))
       THEN Respond(r, HttpError(errBadNonceFormat, StatusBadRequest))
       ELSE Goto(r, "decode")
    /\ UNCHANGED <<enclaveVars, fprVars, acmeVars, req, rawNonce, call, sess, sentReq, sendErr, res, ret, closeLog>>

\* rawNonce, err := hex.DecodeString(nonce)
DecodeNonce(r) ==
    /\ At(r, "decode")
    /\ LET d == DecodeString(QueryGet(req[r].query))
       IN  IF d.err
           THEN /\ Respond(r, HttpError(errBadNonceFormat, StatusBadRequest))
                /\ UNCHANGED rawNonce
           ELSE /\ rawNonce' = [rawNonce EXCEPT ![r] = d.bytes]
                /\ Goto(r, "attest")
    /\ UNCHANGED <<enclaveVars, fprVars, acmeVars, req, call, sess, sentReq, sendErr, res, ret, closeLog>>

\* CallAttest, had the handler read the certFpr field on every request.
CallAttest_readsField(r) ==
    /\ At(r, "attest")
    /\ call' = [call EXCEPT ![r] = [made |-> TRUE, nonce |-> rawNonce[r],
                                    userData |-> certFpr, publicKey |-> NilSlice]]
    /\ Goto(r, "open")
    /\ UNCHANGED <<enclaveVars, fprVars, acmeVars, req, rawNonce, sess, sentReq, sendErr, res, ret, closeLog>>

\* rawDoc, err := attest(rawNonce, certHash[:], nil)
CallAttest(r) ==
    /\ At(r, "attest")
    /\ call' = [call EXCEPT ![r] = [made |-> TRUE, nonce |-> rawNonce[r],
                                    userData |-> handlerHash, publicKey |-> NilSlice]]
    /\ Goto(r, "open")
    /\ UNCHANGED <<enclaveVars, fprVars, acmeVars, req, rawNonce, sess, sentReq, sendErr, res, ret, closeLog>>

\* if err != nil { 500 } else { fmt.Fprintln(w, base64 of rawDoc) }
WriteResponse(r) ==
    /\ At(r, "returned")
    /\ IF ret[r].isErr
       THEN Respond(r, HttpError(errFailedAttestation, StatusInternalServerError))
       ELSE Respond(r, WriteDoc(ret[r].doc.bytes))
    /\ UNCHANGED <<enclaveVars, fprVars, acmeVars, req, rawNonce, call, sess, sentReq, sendErr, res, ret, closeLog>>

(***************************************************************************)
(* attest                                                                  *)
(***************************************************************************)
\* s, err := nsm.OpenDefaultSession(); on an error attest returns it, and the
\* deferred close is not yet registered.
OpenSession(r) ==
    /\ At(r, "open")
    /\ \E ok \in BOOLEAN :
        IF ok
        THEN /\ sess' = [sess EXCEPT ![r].opens = @ + 1]
             /\ Goto(r, "send")
             /\ UNCHANGED ret
        ELSE /\ ret' = [ret EXCEPT ![r] = Return(NilSlice, TRUE, errOpenSession)]
             /\ Goto(r, "returned")
             /\ UNCHANGED sess
    /\ UNCHANGED <<enclaveVars, fprVars, acmeVars, req, rawNonce, call, sentReq, sendErr, res, closeLog>>

\* res, _ := s.Send(&request.Attestation{Nonce, UserData, PublicKey: []byte{}})
Send(r, P) ==
    /\ At(r, "send")
    /\ \E e \in BOOLEAN, p \in P :
        /\ sendErr' = [sendErr EXCEPT ![r] = e]
        /\ res' = [res EXCEPT ![r] = p]
    /\ sentReq' = [sentReq EXCEPT ![r] = [sent |-> TRUE, Nonce |-> call[r].nonce,
                                          UserData |-> call[r].userData,
                                          PublicKey |-> Slice(<<>>)]]
    /\ sess' = [sess EXCEPT ![r].sends = @ + 1]
    /\ Goto(r, "checkError")
    /\ UNCHANGED <<enclaveVars, fprVars, acmeVars, req, rawNonce, call, ret, closeLog>>

\* CheckError, had attest returned the error of Send instead of dropping it:
\* res, err := s.Send(...); if err != nil { return nil, err }
CheckError_propagatesSendErr(r) ==
    /\ At(r, "checkError")
    /\ IF sendErr[r] \/ res[r].error # ""
       THEN /\ ret' = [ret EXCEPT ![r] = Return(NilSlice, TRUE, res[r].error)]
            /\ Goto(r, "close")
       ELSE /\ Goto(r, "checkDoc")
            /\ UNCHANGED ret
    /\ UNCHANGED <<enclaveVars, fprVars, acmeVars, req, rawNonce, call, sess, sentReq, sendErr, res, closeLog>>

\* if res.Error != "" { return nil, errors.New(string(res.Error)) }
CheckError(r) ==
    /\ At(r, "checkError")
    /\ IF res[r].error # ""
       THEN /\ ret' = [ret EXCEPT ![r] = Return(NilSlice, TRUE, res[r].error)]
            /\ Goto(r, "close")
       ELSE /\ Goto(r, "checkDoc")
            /\ UNCHANGED ret
    /\ UNCHANGED <<enclaveVars, fprVars, acmeVars, req, rawNonce, call, sess, sentReq, sendErr, res, closeLog>>

\* CheckDocument, had it taken the error of Send for a missing document:
\* if err != nil || res.Attestation == nil || res.Attestation.Document == nil
CheckDocument_trustsSendErr(r) ==
    /\ At(r, "checkDoc")
    /\ IF sendErr[r] \/ ~res[r].hasAttestation \/ res[r].document.isNil
       THEN ret' = [ret EXCEPT ![r] = Return(NilSlice, TRUE, errNoAttestation)]
       ELSE ret' = [ret EXCEPT ![r] = Return(res[r].document, FALSE, "")]
    /\ Goto(r, "close")
    /\ UNCHANGED <<enclaveVars, fprVars, acmeVars, req, rawNonce, call, sess, sentReq, sendErr, res, closeLog>>

\* if res.Attestation == nil || res.Attestation.Document == nil { return nil, error }
\* return res.Attestation.Document, nil
CheckDocument(r) ==
    /\ At(r, "checkDoc")
    /\ IF ~res[r].hasAttestation \/ res[r].document.isNil
       THEN ret' = [ret EXCEPT ![r] = Return(NilSlice, TRUE, errNoAttestation)]
       ELSE ret' = [ret EXCEPT ![r] = Return(res[r].document, FALSE, "")]
    /\ Goto(r, "close")
    /\ UNCHANGED <<enclaveVars, fprVars, acmeVars, req, rawNonce, call, sess, sentReq, sendErr, res, closeLog>>

\* CloseSession, had attest named its results (doc []byte, err error): the
\* deferred "err = s.Close()" would then replace the error attest returns.
CloseSession_overridesReturn(r) ==
    /\ At(r, "close")
    /\ \E ok \in BOOLEAN :
        /\ closeLog' = [closeLog EXCEPT ![r] = ~ok]
        /\ ret' = [ret EXCEPT ![r].isErr = ~ok]
    /\ sess' = [sess EXCEPT ![r].closes = @ + 1]
    /\ Goto(r, "returned")
    /\ UNCHANGED <<enclaveVars, fprVars, acmeVars, req, rawNonce, call, sentReq, sendErr, res>>

\* The deferred function: s.Close(), its error assigned to the local err and
\* logged; the values already given to return are not results of this closure.
CloseSession(r) ==
    /\ At(r, "close")
    /\ \E ok \in BOOLEAN : closeLog' = [closeLog EXCEPT ![r] = ~ok]
    /\ sess' = [sess EXCEPT ![r].closes = @ + 1]
    /\ Goto(r, "returned")
    /\ UNCHANGED <<enclaveVars, fprVars, acmeVars, req, rawNonce, call, sentReq, sendErr, res, ret>>

Handle(r, P) ==
    \/ CheckMethod(r) \/ ParseForm(r) \/ GetNonce(r) \/ MatchNonce(r) \/ DecodeNonce(r)
    \/ CallAttest(r) \/ OpenSession(r) \/ Send(r, P) \/ CheckError(r) \/ CheckDocument(r)
    \/ CloseSession(r) \/ WriteResponse(r)

InitReqs ==
    /\ hpc = [r \in Reqs |-> "idle"]
    /\ req = [r \in Reqs |-> NoRequest]
    /\ rawNonce = [r \in Reqs |-> <<>>]
    /\ call = [r \in Reqs |-> NoCall]
    /\ sess = [r \in Reqs |-> NoSession]
    /\ sentReq = [r \in Reqs |-> NoSent]
    /\ sendErr = [r \in Reqs |-> FALSE]
    /\ res = [r \in Reqs |-> NoPayload]
    /\ ret = [r \in Reqs |-> NoReturn]
    /\ closeLog = [r \in Reqs |-> FALSE]
    /\ resp = [r \in Reqs |-> NoResponse]

(***************************************************************************)
(* setCertFingerprint                                                      *)
(***************************************************************************)
\* A buffer is a sequence of items: well-formed PEM blocks, and junk (bytes
\* that are no PEM block).  A block has its type; for a CERTIFICATE block,
\* whether x509.ParseCertificate accepts its bytes, whether the certificate is
\* a CA, and the identity of its DER bytes.
Block(type, parses, isCA, der) ==
    [kind |-> "block", type |-> type, parses |-> parses, isCA |-> isCA, der |-> der]
Junk == [kind |-> "junk", type |-> "", parses |-> FALSE, isCA |-> FALSE, der |-> ""]
LeafCert(der) == Block("CERTIFICATE", TRUE, FALSE, der)
CACert(der) == Block("CERTIFICATE", TRUE, TRUE, der)
BadCert(der) == Block("CERTIFICATE", FALSE, FALSE, der)
KeyBlock(der) == Block("PRIVATE KEY", FALSE, FALSE, der)

errNoPEM == "pem.Decode failed because it didn't find PEM data in the input we provided"
errParseCertificate == "x509: malformed certificate"

\* pem.Decode(data): the first PEM block of data and what follows it; with no
\* block in data, nil and data itself.
FirstBlock(data) ==
    IF \E i \in 1..Len(data) : data[i].kind = "block"
    THEN CHOOSE i \in 1..Len(data) :
            /\ data[i].kind = "block"
            /\ \A j \in 1..(i - 1) : data[j].kind # "block"
    ELSE 0
\* pem.Decode, had it handed back its input as the rest.
pemDecode_keepsData(data) ==
    LET i == FirstBlock(data)
    IN  IF i = 0
        THEN [found |-> FALSE, block |-> Junk, rest |-> data]
        ELSE [found |-> TRUE, block |-> data[i], rest |-> data]
pemDecode(data) ==
    LET i == FirstBlock(data)
    IN  IF i = 0
        THEN [found |-> FALSE, block |-> Junk, rest |-> data]
        ELSE [found |-> TRUE, block |-> data[i], rest |-> SubSeq(data, i + 1, Len(data))]

\* rest := []byte{} of setCertFingerprint: the loop's guard reads this variable;
\* the body's "block, rest := pem.Decode(rawData)" declares another one.
outerRest == Slice(<<>>)

NoResult == [isErr |-> FALSE, msg |-> ""]
Failure(msg) == [isErr |-> TRUE, msg |-> msg]

\* The caller enters setCertFingerprint(data).
EnterSetCertFingerprint(data, caller) ==
    /\ fpc = "idle"
    /\ fpc' = "loop"
    /\ rawData' = data
    /\ fInput' = data
    /\ fOldFpr' = certFpr
    /\ fResult' = NoResult
    /\ fCaller' = caller

\* setCertFingerprint returns to its caller: its frame is gone.
LeaveSetCertFingerprint ==
    /\ fpc' = "idle"
    /\ rawData' = <<>>
    /\ fInput' = <<>>
    /\ fOldFpr' = ZeroFpr
    /\ fResult' = NoResult
    /\ fCaller' = ""

\* if block.Type == "CERTIFICATE"
IsCertificate(block) == block.type = "CERTIFICATE"

\* IsLeaf, had the negation been left out: if cert.IsCA
IsLeaf_missingNegation(cert) == cert.isCA

\* if !cert.IsCA
IsLeaf(cert) == ~cert.isCA

\* The loop, had it stored the digest of a certificate before parsing it.
setCertFingerprintLoop_hashesFirst ==
    /\ Alive
    /\ fpc = "loop"
    /\ IF outerRest.isNil
       THEN /\ fResult' = NoResult
            /\ fpc' = "done"
            /\ UNCHANGED <<certFpr, rawData>>
       ELSE LET d == pemDecode(rawData)
            IN  IF ~d.found
                THEN /\ fResult' = Failure(errNoPEM)
                     /\ fpc' = "done"
                     /\ UNCHANGED <<certFpr, rawData>>
                ELSE IF IsCertificate(d.block) /\ ~d.block.parses
                THEN /\ certFpr' = Sha256(d.block.der)
                     /\ fResult' = Failure(errParseCertificate)
                     /\ fpc' = "done"
                     /\ UNCHANGED rawData
                ELSE IF IsCertificate(d.block) /\ IsLeaf(d.block)
                THEN /\ certFpr' = Sha256(d.block.der)
                     /\ fResult' = NoResult
                     /\ fpc' = "done"
                     /\ UNCHANGED rawData
                ELSE /\ rawData' = d.rest
                     /\ UNCHANGED <<certFpr, fResult, fpc>>
    /\ UNCHANGED <<useACME, startPc, steps, tlsConfig, handlerHash, routes, gpc, pemCert>>
    /\ UNCHANGED <<fInput, fOldFpr, fCaller, acmeVars, reqVars>>

\* One test of the loop's guard and, when it holds, one run of its body.
setCertFingerprintLoop ==
    /\ Alive
    /\ fpc = "loop"
    /\ IF outerRest.isNil
       THEN /\ fResult' = NoResult
            /\ fpc' = "done"
            /\ UNCHANGED <<certFpr, rawData>>
       ELSE LET d == pemDecode(rawData)
            IN  IF ~d.found
                THEN /\ fResult' = Failure(errNoPEM)
                     /\ fpc' = "done"
                     /\ UNCHANGED <<certFpr, rawData>>
                ELSE IF IsCertificate(d.block) /\ ~d.block.parses
                THEN /\ fResult' = Failure(errParseCertificate)
                     /\ fpc' = "done"
                     /\ UNCHANGED <<certFpr, rawData>>
                ELSE IF IsCertificate(d.block) /\ IsLeaf(d.block)
                THEN /\ certFpr' = Sha256(d.block.der)
                     /\ fResult' = NoResult
                     /\ fpc' = "done"
                     /\ UNCHANGED rawData
                ELSE /\ rawData' = d.rest
                     /\ UNCHANGED <<certFpr, fResult, fpc>>
    /\ UNCHANGED <<useACME, startPc, steps, tlsConfig, handlerHash, routes, gpc, pemCert>>
    /\ UNCHANGED <<fInput, fOldFpr, fCaller, acmeVars, reqVars>>

\* A direct call of the method on a constructed Enclave, and its return.
MaxBlocks == 3
BufferItems ==
    {LeafCert("leaf1"), LeafCert("leaf2"), CACert("ca1"), BadCert("bad1"), KeyBlock("key1"), Junk}
Buffers == SeqsUpTo(BufferItems, MaxBlocks)

DirectCall(data) ==
    /\ Alive
    /\ EnterSetCertFingerprint(data, "direct")
    /\ UNCHANGED <<enclaveVars, acmeVars, reqVars>>

DirectReturn ==
    /\ Alive
    /\ fpc = "done"
    /\ fCaller = "direct"
    /\ LeaveSetCertFingerprint
    /\ UNCHANGED <<enclaveVars, acmeVars, reqVars>>

InitFprFrame ==
    /\ fpc = "idle"
    /\ rawData = <<>>
    /\ fInput = <<>>
    /\ fOldFpr = ZeroFpr
    /\ fResult = NoResult
    /\ fCaller = ""

(***************************************************************************)
(* Enclave.Start                                                           *)
(***************************************************************************)
NoTLS == [kind |-> "none", cert |-> ""]
StaticTLS(der) == [kind |-> "static", cert |-> der]
DynamicTLS == [kind |-> "dynamic", cert |-> ""]

AttestationRoute == <<"GET", "/attestation">>

\* Start returns an error: no later step runs.
StartFails ==
    /\ startPc' = "returnedErr"

\* if err = seedEntropyPool(); err != nil
SeedEntropy ==
    /\ startPc = "seed"
    /\ steps' = Append(steps, "seedEntropy")
    /\ \E ok \in BOOLEAN : IF ok THEN startPc' = "lo" ELSE StartFails
    /\ UNCHANGED <<useACME, certFpr, tlsConfig, handlerHash, routes, gpc, pemCert>>
    /\ UNCHANGED <<fprVars, acmeVars, reqVars>>

\* if err = assignLoAddr(); err != nil
AssignLoAddr ==
    /\ startPc = "lo"
    /\ steps' = Append(steps, "assignLoAddr")
    /\ \E ok \in BOOLEAN : IF ok THEN startPc' = "cert" ELSE StartFails
    /\ UNCHANGED <<useACME, certFpr, tlsConfig, handlerHash, routes, gpc, pemCert>>
    /\ UNCHANGED <<fprVars, acmeVars, reqVars>>

\* if e.cfg.UseACME { err = e.setupAcme() }: the cache directory is made, the
\* two goroutines are started, the TLS configuration asks certManager for its
\* certificate on each handshake; setupAcme returns without waiting.
SetupAcme ==
    /\ startPc = "cert"
    /\ useACME
    /\ steps' = Append(steps, "provisionCert")
    /\ \E mkdirOk \in BOOLEAN :
        IF mkdirOk
        THEN /\ listenerPc' = "listen"
             /\ tlsConfig' = DynamicTLS
             /\ pollerPc' = "query"
             /\ startPc' = "route"
        ELSE /\ StartFails
             /\ UNCHANGED <<listenerPc, tlsConfig, pollerPc>>
    /\ UNCHANGED <<useACME, certFpr, handlerHash, routes, gpc, pemCert>>
    /\ UNCHANGED <<fprVars, cache, acmeCert, polls, reqVars>>

\* else { err = e.genSelfSignedCert() }
CallGenSelfSignedCert ==
    /\ startPc = "cert"
    /\ ~useACME
    /\ steps' = Append(steps, "provisionCert")
    /\ startPc' = "certWait"
    /\ gpc' = "genKey"
    /\ UNCHANGED <<useACME, certFpr, tlsConfig, handlerHash, routes, pemCert>>
    /\ UNCHANGED <<fprVars, acmeVars, reqVars>>

\* RegisterEndpoint, had setupAcme returned only once the poller had finished.
RegisterEndpoint_afterPoller ==
    /\ startPc = "route"
    /\ useACME => pollerPc = "done"
    /\ steps' = Append(steps, "registerEndpoint")
    /\ routes' = routes \cup {AttestationRoute}
    /\ handlerHash' = certFpr
    /\ startPc' = "proxyHTTP"
    /\ UNCHANGED <<useACME, certFpr, tlsConfig, gpc, pemCert>>
    /\ UNCHANGED <<fprVars, acmeVars, reqVars>>

\* e.router.Get("/attestation", getAttestationHandler(e.certFpr)): the array
\* e.certFpr is passed by value, the handler keeps that copy.
RegisterEndpoint ==
    /\ startPc = "route"
    /\ steps' = Append(steps, "registerEndpoint")
    /\ routes' = routes \cup {AttestationRoute}
    /\ handlerHash' = certFpr
    /\ startPc' = "proxyHTTP"
    /\ UNCHANGED <<useACME, certFpr, tlsConfig, gpc, pemCert>>
    /\ UNCHANGED <<fprVars, acmeVars, reqVars>>

\* os.Setenv("HTTP_PROXY", ...)
SetHTTPProxy ==
    /\ startPc = "proxyHTTP"
    /\ steps' = Append(steps, "setProxyEnv")
    /\ \E ok \in BOOLEAN : IF ok THEN startPc' = "proxyHTTPS" ELSE StartFails
    /\ UNCHANGED <<useACME, certFpr, tlsConfig, handlerHash, routes, gpc, pemCert>>
    /\ UNCHANGED <<fprVars, acmeVars, reqVars>>

\* os.Setenv("HTTPS_PROXY", ...)
SetHTTPSProxy ==
    /\ startPc = "proxyHTTPS"
    /\ \E ok \in BOOLEAN : IF ok THEN startPc' = "listen" ELSE StartFails
    /\ UNCHANGED <<useACME, steps, certFpr, tlsConfig, handlerHash, routes, gpc, pemCert>>
    /\ UNCHANGED <<fprVars, acmeVars, reqVars>>

\* l, err = vsock.Listen(uint32(e.cfg.Port))
BindListener ==
    /\ startPc = "listen"
    /\ steps' = Append(steps, "bindListener")
    /\ \E ok \in BOOLEAN : IF ok THEN startPc' = "serve" ELSE StartFails
    /\ UNCHANGED <<useACME, certFpr, tlsConfig, handlerHash, routes, gpc, pemCert>>
    /\ UNCHANGED <<fprVars, acmeVars, reqVars>>

\* return e.httpSrv.ServeTLS(l, "", ""): it serves, or returns an error.
ServeTLS ==
    /\ startPc = "serve"
    /\ steps' = Append(steps, "serveTLS")
    /\ \E ok \in BOOLEAN : IF ok THEN startPc' = "serving" ELSE StartFails
    /\ UNCHANGED <<useACME, certFpr, tlsConfig, handlerHash, routes, gpc, pemCert>>
    /\ UNCHANGED <<fprVars, acmeVars, reqVars>>

(***************************************************************************)
(* Enclave.genSelfSignedCert                                               *)
(***************************************************************************)
selfSignedDer == "selfsigned"
\* cfg.FQDN
cfgFQDN == "enclave.example.com"
\* template, had it named no host.
template_noDNSNames == [DNSNames |-> <<>>, IsCA |-> FALSE, BasicConstraintsValid |-> TRUE]
\* template := x509.Certificate{..., DNSNames: []string{e.cfg.FQDN},
\* BasicConstraintsValid: true}: IsCA keeps its zero value.
template == [DNSNames |-> <<cfgFQDN>>, IsCA |-> FALSE, BasicConstraintsValid |-> TRUE]
\* The PEM block of the certificate that x509.CreateCertificate makes of
\* template, with template as its own parent.
selfSignedCert ==
    [kind |-> "block", type |-> "CERTIFICATE", parses |-> TRUE,
     isCA |-> template.BasicConstraintsValid /\ template.IsCA,
     der |-> selfSignedDer, dnsNames |-> template.DNSNames]

\* genSelfSignedCert returns err to Start, which returns it wrapped.
GenReturnsErr ==
    /\ gpc' = "done"
    /\ StartFails

\* privateKey, err := ecdsa.GenerateKey(...)
GenerateKey ==
    /\ startPc = "certWait" /\ gpc = "genKey"
    /\ \E ok \in BOOLEAN : IF ok THEN gpc' = "serial" /\ UNCHANGED startPc ELSE GenReturnsErr
    /\ UNCHANGED <<useACME, steps, certFpr, tlsConfig, handlerHash, routes, pemCert>>
    /\ UNCHANGED <<fprVars, acmeVars, reqVars>>

\* serialNumber, err := rand.Int(...)
GenerateSerial ==
    /\ startPc = "certWait" /\ gpc = "serial"
    /\ \E ok \in BOOLEAN : IF ok THEN gpc' = "create" /\ UNCHANGED startPc ELSE GenReturnsErr
    /\ UNCHANGED <<useACME, steps, certFpr, tlsConfig, handlerHash, routes, pemCert>>
    /\ UNCHANGED <<fprVars, acmeVars, reqVars>>

\* derBytes, err := x509.CreateCertificate(...): the template sets no IsCA.
CreateCertificate ==
    /\ startPc = "certWait" /\ gpc = "create"
    /\ \E ok \in BOOLEAN : IF ok THEN gpc' = "encodeCert" /\ UNCHANGED startPc ELSE GenReturnsErr
    /\ UNCHANGED <<useACME, steps, certFpr, tlsConfig, handlerHash, routes, pemCert>>
    /\ UNCHANGED <<fprVars, acmeVars, reqVars>>

\* pemCert := pem.EncodeToMemory(...); if pemCert == nil
EncodeCert ==
    /\ startPc = "certWait" /\ gpc = "encodeCert"
    /\ \E ok \in BOOLEAN :
        IF ok
        THEN /\ pemCert' = <<selfSignedCert>>
             /\ gpc' = "setFpr"
             /\ UNCHANGED startPc
        ELSE /\ GenReturnsErr
             /\ UNCHANGED pemCert
    /\ UNCHANGED <<useACME, steps, certFpr, tlsConfig, handlerHash, routes>>
    /\ UNCHANGED <<fprVars, acmeVars, reqVars>>

\* e.setCertFingerprint(pemCert) is entered
GenCallSetCertFingerprint ==
    /\ startPc = "certWait" /\ gpc = "setFpr"
    /\ EnterSetCertFingerprint(pemCert, "genSelfSignedCert")
    /\ gpc' = "fprWait"
    /\ UNCHANGED <<useACME, startPc, steps, certFpr, tlsConfig, handlerHash, routes, pemCert>>
    /\ UNCHANGED <<acmeVars, reqVars>>

\* if err := e.setCertFingerprint(pemCert); err != nil { return err }
GenSetCertFingerprintReturns ==
    /\ startPc = "certWait" /\ gpc = "fprWait"
    /\ fpc = "done" /\ fCaller = "genSelfSignedCert"
    /\ LeaveSetCertFingerprint
    /\ IF fResult.isErr THEN GenReturnsErr ELSE gpc' = "marshalKey" /\ UNCHANGED startPc
    /\ UNCHANGED <<useACME, steps, certFpr, tlsConfig, handlerHash, routes, pemCert>>
    /\ UNCHANGED <<acmeVars, reqVars>>

\* privBytes, err := x509.MarshalPKCS8PrivateKey(privateKey); on an error
\* log.Fatalf ends the process.
MarshalKey ==
    /\ startPc = "certWait" /\ gpc = "marshalKey"
    /\ \E ok \in BOOLEAN :
        IF ok THEN gpc' = "encodeKey" /\ UNCHANGED startPc
        ELSE gpc' = "done" /\ startPc' = "fatal"
    /\ UNCHANGED <<useACME, steps, certFpr, tlsConfig, handlerHash, routes, pemCert>>
    /\ UNCHANGED <<fprVars, acmeVars, reqVars>>

\* pemKey := pem.EncodeToMemory(...); if pemKey == nil { log.Fatal(...) }
EncodeKey ==
    /\ startPc = "certWait" /\ gpc = "encodeKey"
    /\ \E ok \in BOOLEAN :
        IF ok THEN gpc' = "keyPair" /\ UNCHANGED startPc
        ELSE gpc' = "done" /\ startPc' = "fatal"
    /\ UNCHANGED <<useACME, steps, certFpr, tlsConfig, handlerHash, routes, pemCert>>
    /\ UNCHANGED <<fprVars, acmeVars, reqVars>>

\* cert, err := tls.X509KeyPair(pemCert, pemKey); then
\* e.httpSrv.TLSConfig = &tls.Config{Certificates: []tls.Certificate{cert}}
InstallKeyPair ==
    /\ startPc = "certWait" /\ gpc = "keyPair"
    /\ \E ok \in BOOLEAN :
        IF ok
        THEN /\ tlsConfig' = StaticTLS(pemCert[1].der)
             /\ gpc' = "done"
             /\ startPc' = "route"
        ELSE /\ GenReturnsErr
             /\ UNCHANGED tlsConfig
    /\ UNCHANGED <<useACME, steps, certFpr, handlerHash, routes, pemCert>>
    /\ UNCHANGED <<fprVars, acmeVars, reqVars>>

genSelfSignedCert ==
    \/ GenerateKey \/ GenerateSerial \/ CreateCertificate \/ EncodeCert
    \/ GenCallSetCertFingerprint \/ GenSetCertFingerprintReturns
    \/ MarshalKey \/ EncodeKey \/ InstallKeyPair

Start ==
    \/ SeedEntropy \/ AssignLoAddr \/ SetupAcme \/ CallGenSelfSignedCert
    \/ RegisterEndpoint \/ SetHTTPProxy \/ SetHTTPSProxy \/ BindListener \/ ServeTLS

(***************************************************************************)
(* External issuance: the two goroutines of setupAcme, and certManager      *)
(***************************************************************************)
MaxPolls == 2

NoMaterial == [present |-> FALSE, data |-> <<>>]
Material(data) == [present |-> TRUE, data |-> data]
NoCert == ""

\* What autocert stores under the FQDN: the private key, the leaf, the chain.
AcmeMaterial ==
    { <<KeyBlock("key1"), LeafCert("leaf1"), CACert("ca1")>>,
      <<KeyBlock("key1"), LeafCert("leaf2")>> }

\* The first goroutine: l, err := vsock.Listen(uint32(80)); on an error
\* log.Fatalf ends the process; else http.Serve answers HTTP-01 challenges.
AcmeListener ==
    /\ Alive
    /\ listenerPc = "listen"
    /\ \E ok \in BOOLEAN :
        IF ok THEN listenerPc' = "serving" /\ UNCHANGED startPc
        ELSE listenerPc' = "done" /\ startPc' = "fatal"
    /\ UNCHANGED <<useACME, steps, certFpr, tlsConfig, handlerHash, routes, gpc, pemCert>>
    /\ UNCHANGED <<fprVars, cache, acmeCert, pollerPc, polls, reqVars>>

\* certManager.GetCertificate on a handshake of the serving HTTPS server: the
\* certificate is issued (the HTTP-01 challenge is answered by the listener),
\* stored in the cache and served from then on.
AcmeIssue ==
    /\ Alive
    /\ startPc = "serving"
    /\ tlsConfig.kind = "dynamic"
    /\ listenerPc = "serving"
    /\ ~cache.present
    /\ \E m \in AcmeMaterial :
        /\ cache' = Material(m)
        /\ acmeCert' = m[2].der
    /\ UNCHANGED <<enclaveVars, fprVars, pollerPc, listenerPc, polls, reqVars>>

\* PollMiss, had the goroutine returned on a failed query.
PollMiss_givesUp ==
    /\ Alive
    /\ pollerPc = "query"
    /\ ~cache.present
    /\ polls' = IF polls < MaxPolls THEN polls + 1 ELSE polls
    /\ pollerPc' = "done"
    /\ UNCHANGED <<enclaveVars, fprVars, cache, acmeCert, listenerPc, reqVars>>

\* The second goroutine: rawData, err = cache.Get(ctx, e.cfg.FQDN) fails,
\* time.Sleep(5 * time.Second), and the loop goes round.
PollMiss ==
    /\ Alive
    /\ pollerPc = "query"
    /\ ~cache.present
    /\ polls' = IF polls < MaxPolls THEN polls + 1 ELSE polls
    /\ UNCHANGED <<enclaveVars, fprVars, cache, acmeCert, pollerPc, listenerPc, reqVars>>

\* cache.Get succeeds: break, and e.setCertFingerprint(rawData) is entered.
PollHit ==
    /\ Alive
    /\ pollerPc = "query"
    /\ cache.present
    /\ EnterSetCertFingerprint(cache.data, "poller")
    /\ pollerPc' = "setFpr"
    /\ UNCHANGED <<enclaveVars, cache, acmeCert, listenerPc, polls, reqVars>>

\* e.setCertFingerprint(rawData) returns; its result is dropped and the
\* goroutine ends.
PollerReturns ==
    /\ Alive
    /\ pollerPc = "setFpr"
    /\ fpc = "done" /\ fCaller = "poller"
    /\ LeaveSetCertFingerprint
    /\ pollerPc' = "done"
    /\ UNCHANGED <<enclaveVars, cache, acmeCert, listenerPc, polls, reqVars>>

setupAcmeTasks == AcmeListener \/ AcmeIssue \/ PollMiss \/ PollHit \/ PollerReturns

InitAcme ==
    /\ cache = NoMaterial
    /\ acmeCert = NoCert
    /\ pollerPc = "off"
    /\ listenerPc = "off"
    /\ polls = 0

(***************************************************************************)
(* The HTTPS server: a request reaches the router                          *)
(***************************************************************************)
\* The leaf certificate the TLS configuration serves.
ActiveCert ==
    IF tlsConfig.kind = "static" THEN tlsConfig.cert
    ELSE IF tlsConfig.kind = "dynamic" THEN acmeCert
    ELSE NoCert

\* A request to /attestation arrives over TLS.  The route is registered for
\* GET alone: the router answers any other method itself with 405.
ServeHTTP(r, q) ==
    /\ At(r, "idle")
    /\ startPc = "serving"
    /\ ActiveCert # NoCert
    /\ IF <<q.method, "/attestation">> \in routes
       THEN /\ req' = [req EXCEPT ![r] = q]
            /\ Goto(r, "method")
       ELSE /\ Respond(r, [status |-> StatusMethodNotAllowed, body |-> <<>>])
            /\ UNCHANGED req
    /\ UNCHANGED <<enclaveVars, fprVars, acmeVars, rawNonce, call, sess, sentReq, sendErr, res, ret, closeLog>>

(***************************************************************************)
(* AddRoute                                                                *)
(***************************************************************************)
\* e.router.Get(pattern, handlerFn) and its eight siblings: the router gets
\* the route of that method and pattern.
Handle_(rts, method, pattern) == rts \cup {<<method, pattern>>}

\* The switch, had the PATCH case called e.router.Put.
switchMethod_patchAsPut(rts, method, pattern) ==
    CASE method = "GET" -> Handle_(rts, "GET", pattern)
      [] method = "HEAD" -> Handle_(rts, "HEAD", pattern)
      [] method = "POST" -> Handle_(rts, "POST", pattern)
      [] method = "PUT" -> Handle_(rts, "PUT", pattern)
      [] method = "PATCH" -> Handle_(rts, "PUT", pattern)
      [] method = "DELETE" -> Handle_(rts, "DELETE", pattern)
      [] method = "CONNECT" -> Handle_(rts, "CONNECT", pattern)
      [] method = "OPTIONS" -> Handle_(rts, "OPTIONS", pattern)
      [] method = "TRACE" -> Handle_(rts, "TRACE", pattern)
      [] OTHER -> rts

\* switch method { case http.MethodGet: e.router.Get(pattern, handlerFn) ... }:
\* nine cases and no default.
switchMethod(rts, method, pattern) ==
    CASE method = "GET" -> Handle_(rts, "GET", pattern)
      [] method = "HEAD" -> Handle_(rts, "HEAD", pattern)
      [] method = "POST" -> Handle_(rts, "POST", pattern)
      [] method = "PUT" -> Handle_(rts, "PUT", pattern)
      [] method = "PATCH" -> Handle_(rts, "PATCH", pattern)
      [] method = "DELETE" -> Handle_(rts, "DELETE", pattern)
      [] method = "CONNECT" -> Handle_(rts, "CONNECT", pattern)
      [] method = "OPTIONS" -> Handle_(rts, "OPTIONS", pattern)
      [] method = "TRACE" -> Handle_(rts, "TRACE", pattern)
      [] OTHER -> rts

\* The most routes the application adds.
MaxRoutes == 2
\* The methods and patterns the application calls AddRoute with: the nine of
\* net/http, and three that are none of them.
RouteMethods ==
    {"GET", "HEAD", "POST", "PUT", "PATCH", "DELETE", "CONNECT", "OPTIONS", "TRACE",
     "get", "BREW", ""}
Patterns == {"/hello", "/attestation"}

\* func (e *Enclave) AddRoute(method, pattern string, handlerFn http.HandlerFunc)
AddRoute(method, pattern) ==
    /\ Alive
    /\ Cardinality(routes) < MaxRoutes
    /\ routes' = switchMethod(routes, method, pattern)
    /\ UNCHANGED <<useACME, startPc, steps, certFpr, tlsConfig, handlerHash, gpc, pemCert>>
    /\ UNCHANGED <<fprVars, acmeVars, reqVars>>

(***************************************************************************)
(* Specifications                                                          *)
(***************************************************************************)
\* NewEnclave(cfg)
InitEnclave ==
    /\ useACME \in BOOLEAN
    /\ startPc = "seed"
    /\ steps = <<>>
    /\ certFpr = ZeroFpr
    /\ tlsConfig = NoTLS
    /\ handlerHash = NoHandler
    /\ routes = {}
    /\ gpc = "idle"
    /\ pemCert = <<>>

Init == InitEnclave /\ InitFprFrame /\ InitAcme /\ InitReqs

\* The requests and device answers of the service as a whole.
ValidNonce == Concat(Rep(<<"a", "1", "b", "2", "c", "3", "d", "4", "e", "5">>, nonceLen \div 10))
ServiceRequests ==
    {[method |-> m, formOk |-> TRUE, query |-> [hasNonce |-> TRUE, nonce |-> n]] :
        m \in Methods, n \in {ValidNonce, <<"x", "y", "z">>}}
ServicePayloads ==
    { [error |-> "", hasAttestation |-> TRUE, document |-> Slice(<<102, 111, 111>>)],
      [error |-> "InternalError", hasAttestation |-> FALSE, document |-> NilSlice] }

Next ==
    \/ Start
    \/ genSelfSignedCert
    \/ setCertFingerprintLoop
    \/ setupAcmeTasks
    \/ \E r \in Reqs : (\E q \in ServiceRequests : ServeHTTP(r, q)) \/ Handle(r, ServicePayloads)

Spec == Init /\ [][Next]_vars

\* The poller is a goroutine of its own: the Go scheduler runs it whenever it
\* can take a step, so its steps and those of the setCertFingerprint call it
\* makes are weakly fair. Nothing is assumed of Start, of the clients or of
\* the certificate authority.
SpecFair ==
    /\ Spec
    /\ WF_vars(PollMiss)
    /\ WF_vars(PollHit)
    /\ WF_vars(setCertFingerprintLoop)
    /\ WF_vars(PollerReturns)

\* The application adds routes while Start provisions and serves.
NextRoutes ==
    \/ Start
    \/ genSelfSignedCert
    \/ setCertFingerprintLoop
    \/ \E method \in RouteMethods, pattern \in Patterns : AddRoute(method, pattern)

SpecRoutes == Init /\ [][NextRoutes]_vars

\* The handler and attest, called with every request and device answer.
AllSteps ==
    <<"seedEntropy", "assignLoAddr", "provisionCert", "registerEndpoint",
      "setProxyEnv", "bindListener", "serveTLS">>

\* The enclave serving with a self-signed certificate.
ServingSelfSigned ==
    /\ useACME = FALSE
    /\ startPc = "serving"
    /\ steps = AllSteps
    /\ certFpr = Sha256(selfSignedDer)
    /\ tlsConfig = StaticTLS(selfSignedDer)
    /\ handlerHash = Sha256(selfSignedDer)
    /\ routes = {AttestationRoute}
    /\ gpc = "done"
    /\ pemCert = <<selfSignedCert>>
    /\ InitFprFrame

InitHandler == ServingSelfSigned /\ InitAcme /\ InitReqs

NextHandler ==
    \/ \E q \in Requests : Receive("r1", q)
    \/ Handle("r1", Payloads)

SpecHandler == InitHandler /\ [][NextHandler]_vars

\* setCertFingerprint, called on a constructed Enclave with every buffer.
InitFpr == InitEnclave /\ InitFprFrame /\ InitAcme /\ InitReqs

NextFpr ==
    \/ \E data \in Buffers : DirectCall(data)
    \/ setCertFingerprintLoop
    \/ DirectReturn

SpecFpr == InitFpr /\ [][NextFpr]_vars

\* The caller of setCertFingerprint keeps running it until it returns.
SpecFprFair == SpecFpr /\ WF_vars(setCertFingerprintLoop)

(***************************************************************************)
(* Properties                                                              *)
(***************************************************************************)
\* Exactly nonceLen lowercase hex digits.
IsNonce(s) == Len(s) = nonceLen /\ \A i \in 1..Len(s) : s[i] \in NonceClass

\* The request has passed the checks that come before the nonce's format:
\* the method is GET and the form parsed.
ReachesNonceCheck(r) == hpc[r] # "idle" /\ req[r].method = "GET" /\ req[r].formOk

\* C1: a request whose nonce parameter is not exactly 40 lowercase hex digits
\* is answered with status 400, and attest is never invoked for it.  (Stated
\* for the requests that reach the nonce checks.)
C1_MalformedNonceRejected ==
    \A r \in Reqs :
        (ReachesNonceCheck(r) /\ ~IsNonce(QueryGet(req[r].query)))
            => /\ ~call[r].made
               /\ hpc[r] = "done" => resp[r].status = StatusBadRequest

\* C2: the user data a handled request submits to the attestation provider is
\* the fingerprint of the leaf certificate the TLS configuration serves.
C2_UserDataIsActiveFingerprint ==
    \A r \in Reqs : sentReq[r].sent => sentReq[r].UserData = Sha256(ActiveCert)

\* attest has returned to the handler of r (the deferred close has run).
AttestDone(r) == call[r].made /\ hpc[r] \in {"returned", "done"}
\* ... having opened a session and sent its request.
AttestReturned(r) == AttestDone(r) /\ sess[r].sends = 1
DocumentPresent(p) == p.hasAttestation /\ ~p.document.isNil

\* C3 as stated: a response with a non-empty error field and a present
\* document makes attest succeed and return that document.
C3_ErrorFieldWithDocumentSucceeds ==
    \A r \in Reqs :
        (AttestReturned(r) /\ res[r].error # "" /\ DocumentPresent(res[r]))
            => ~ret[r].isErr /\ ret[r].doc = res[r].document

\* C3 amended: it is the error Send returns that attest tolerates.  When Send
\* reports an error and the response has an empty error field and a present
\* document, attest succeeds and returns that document; a response with a
\* non-empty error field makes attest fail with the device's message, a
\* document being present or not.
C3_SendErrorWithDocumentSucceeds ==
    \A r \in Reqs :
        AttestReturned(r) =>
            /\ (sendErr[r] /\ res[r].error = "" /\ DocumentPresent(res[r]))
                  => ~ret[r].isErr /\ ret[r].doc = res[r].document
            /\ res[r].error # "" => ret[r].isErr /\ ret[r].msg = res[r].error

C3_Witness ==
    \E r \in Reqs :
        /\ AttestReturned(r)
        /\ sendErr[r] /\ res[r].error = "" /\ DocumentPresent(res[r])
        /\ ~ret[r].isErr
        /\ Len(ret[r].doc.bytes) > 0

\* What the claim C4 says attest returns for response p.
PayloadOutcome(p) ==
    IF p.error # "" THEN [isErr |-> TRUE, msg |-> p.error, doc |-> NilSlice]
    ELSE IF ~p.hasAttestation \/ p.document.isNil
    THEN [isErr |-> TRUE, msg |-> errNoAttestation, doc |-> NilSlice]
    ELSE [isErr |-> FALSE, msg |-> "", doc |-> p.document]

\* C4: once the session is open, what attest returns is determined by the
\* response alone, whatever Send reported: failure with the device's message
\* when the error field is not empty, failure when the attestation or the
\* document is missing, else the document's bytes, unchanged.
C4_OutcomeIsFunctionOfPayload ==
    \A r \in Reqs :
        AttestReturned(r) =>
            /\ ret[r].isErr = PayloadOutcome(res[r]).isErr
            /\ ret[r].doc = PayloadOutcome(res[r]).doc
            /\ res[r].error # "" => ret[r].msg = res[r].error

C4_Witness ==
    \E r \in Reqs :
        /\ AttestReturned(r)
        /\ sendErr[r]
        /\ res[r].error # ""
        /\ DocumentPresent(res[r])
        /\ ret[r].isErr /\ ret[r].msg = "InternalError"

\* The session of r: opened at most once, closed only after it was opened and
\* only as attest returns; after the return it is closed if it was opened, and
\* a session that was never opened means an error and nothing sent.
C5_SessionState ==
    \A r \in Reqs :
        /\ sess[r].opens <= 1 /\ sess[r].closes <= sess[r].opens
        /\ sess[r].sends <= sess[r].opens
        /\ sess[r].closes = 1 => AttestDone(r)
        /\ AttestDone(r) =>
            /\ ret[r].returned
            /\ sess[r].closes = sess[r].opens
            /\ sess[r].opens = 0 => ret[r].isErr /\ sess[r].sends = 0 /\ ~sentReq[r].sent
\* The step that closes the session leaves the values attest returns alone.
C5_CloseKeepsReturn ==
    \A r \in Reqs :
        hpc[r] = "close" => (ret'[r] = ret[r] /\ ret[r].returned)

\* C5: a call of attest that opens a session closes it exactly once before it
\* returns, on every path; no session is open after attest returns; a failing
\* close leaves what attest returns as it was; and when the session cannot be
\* opened attest returns an error and sends nothing.
C5_SessionClosedExactlyOnce == [](C5_SessionState) /\ [][C5_CloseKeepsReturn]_vars

C5_Witness ==
    \E r \in Reqs :
        /\ hpc[r] = "done"
        /\ sess[r] = [opens |-> 1, sends |-> 1, closes |-> 1]
        /\ closeLog[r]
        /\ ~ret[r].isErr
        /\ resp[r].status = StatusOK

\* C6: the nonce the handler passes to attest is the 20 bytes that the
\* 40-hex-digit nonce parameter decodes to, and it passes no public key.
C6_NonceIsTwentyDecodedBytes ==
    \A r \in Reqs :
        call[r].made =>
            /\ IsNonce(QueryGet(req[r].query))
            /\ Len(call[r].nonce) = nonceLen \div 2
            /\ call[r].nonce = DecodeString(QueryGet(req[r].query)).bytes
            /\ call[r].publicKey = NilSlice

\* The base64 encodings RFC 4648 (section 10) gives for the documents of Docs.
RFC4648(doc) ==
    CASE doc = <<>> -> <<>>
      [] doc = <<102>> -> <<"Z", "g", "=", "=">>
      [] doc = <<102, 111>> -> <<"Z", "m", "8", "=">>
      [] doc = <<102, 111, 111>> -> <<"Z", "m", "9", "v">>
      [] doc = <<102, 111, 111, 98>> -> <<"Z", "m", "9", "v", "Y", "g", "=", "=">>

\* C7: when attest returns document D to the handler, the response has status
\* 200 and its body is the standard base64 encoding of D and one newline; a
\* response with status 200, or with the encoding of a document as its body,
\* is written only when attest succeeded.
C7_BodyIsBase64OfDocument ==
    \A r \in Reqs :
        hpc[r] = "done" =>
            /\ (AttestDone(r) /\ ~ret[r].isErr) =>
                  /\ ret[r].doc = res[r].document
                  /\ resp[r].status = StatusOK
                  /\ resp[r].body = RFC4648(ret[r].doc.bytes) \o <<"\n">>
            /\ (~AttestDone(r) \/ ret[r].isErr) =>
                  /\ resp[r].status # StatusOK
                  /\ \A d \in Docs : resp[r].body # RFC4648(d) \o <<"\n">>

C7_Witness ==
    \E r \in Reqs :
        /\ hpc[r] = "done"
        /\ req[r].method = "GET"
        /\ QueryGet(req[r].query) = ValidNonce
        /\ ret[r].doc = Slice(<<102, 111, 111, 98>>)
        /\ resp[r] = [status |-> 200, body |-> <<"Z", "m", "9", "v", "Y", "g", "=", "=", "\n">>]

\* The first non-CA certificate of a buffer, and the buffers of C8: there is
\* one, and every CERTIFICATE block before it is a certificate (its bytes parse).
IsLeafCert(b) == b.kind = "block" /\ b.type = "CERTIFICATE" /\ b.parses /\ ~b.isCA
FirstLeafCert(buf) ==
    CHOOSE i \in 1..Len(buf) : IsLeafCert(buf[i]) /\ \A j \in 1..(i - 1) : ~IsLeafCert(buf[j])
HasLeafCert(buf) ==
    /\ \E i \in 1..Len(buf) : IsLeafCert(buf[i])
    /\ \A j \in 1..(FirstLeafCert(buf) - 1) :
          (buf[j].kind = "block" /\ buf[j].type = "CERTIFICATE") => buf[j].parses

\* C8: on a buffer with a non-CA certificate, setCertFingerprint sets the
\* fingerprint to the SHA-256 of the DER bytes of the first one in buffer
\* order and returns nil, whatever CA certificates and other blocks stand
\* before or after it; what follows that certificate is not taken from the
\* buffer.
C8_FirstLeafFingerprint ==
    (fpc = "done" /\ HasLeafCert(fInput)) =>
        LET i == FirstLeafCert(fInput)
        IN  /\ ~fResult.isErr
            /\ certFpr = Sha256(fInput[i].der)
            /\ \E k \in 1..i : rawData = SubSeq(fInput, k, Len(fInput))

C8_Witness ==
    /\ fpc = "done"
    /\ fInput = <<CACert("ca1"), LeafCert("leaf2"), CACert("ca1")>>
    /\ fOldFpr = Sha256("leaf1")
    /\ certFpr = Sha256("leaf2")
    /\ ~fResult.isErr

\* C9: on a buffer of well-formed PEM blocks that are all CA certificates,
\* setCertFingerprint returns a "not found" outcome that is not the error it
\* returns when the buffer holds no PEM block at all.
OnlyCACerts(buf) ==
    /\ Len(buf) > 0
    /\ \A i \in 1..Len(buf) : buf[i] = CACert(buf[i].der)
C9_OnlyCAsIsNotMalformed ==
    (fpc = "done" /\ OnlyCACerts(fInput)) => fResult # Failure(errNoPEM)

IsPrefix(s, t) == Len(s) <= Len(t) /\ s = SubSeq(t, 1, Len(s))
\* The steps Start has executed when it stands at pc.
StepsBefore(pc) ==
    CASE pc = "seed" -> 0
      [] pc = "lo" -> 1
      [] pc = "cert" -> 2
      [] pc = "certWait" -> 3
      [] pc = "route" -> 3
      [] pc = "proxyHTTP" -> 4
      [] pc = "proxyHTTPS" -> 5
      [] pc = "listen" -> 5
      [] pc = "serve" -> 6
      [] pc = "serving" -> 7
      [] OTHER -> Len(steps)
\* The process was ended inside genSelfSignedCert: the step failed and Start
\* returned nothing.
EndedInProvisioning == startPc = "fatal" /\ gpc = "done"
C10_StepsInOrder ==
    /\ IsPrefix(steps, AllSteps)
    /\ Len(steps) = StepsBefore(startPc)
    /\ startPc = "returnedErr" => Len(steps) > 0
C10_FailedStepReturnsError == ~EndedInProvisioning
C10_NoStepAfterFailure ==
    /\ steps' # steps =>
          /\ startPc \notin {"returnedErr", "fatal"}
          /\ steps' = Append(steps, AllSteps[Len(steps) + 1])
    /\ startPc = "returnedErr" => startPc' \in {"returnedErr", "fatal"}

\* C10: Start runs its steps in the fixed order, each only after the earlier
\* ones succeeded; a failing step makes Start return an error to its caller,
\* and then no step runs, later or earlier.
C10_StartStepsOrdered ==
    [](C10_StepsInOrder /\ C10_FailedStepReturnsError) /\ [][C10_NoStepAfterFailure]_vars

\* The handler of r was invoked and has answered.
Answered(r) == hpc[r] = "done" /\ req[r] # NoRequest
\* The first check of the claim's list that the request of r fails: the
\* format is that of the specification, exactly 40 lowercase hex digits.
FirstFailure(r) ==
    IF req[r].method # "GET" THEN "method"
    ELSE IF ~req[r].formOk THEN "form"
    ELSE IF QueryGet(req[r].query) = <<>> THEN "missing"
    ELSE IF ~IsNonce(QueryGet(req[r].query)) THEN "format"
    ELSE IF ret[r].isErr THEN "attestation"
    ELSE "none"
StatusOf(failure) ==
    CASE failure = "method" -> 405
      [] failure \in {"form", "missing", "format"} -> 400
      [] failure = "attestation" -> 500
      [] failure = "none" -> 200

\* C11: the handler applies its checks in the order method, form, nonce
\* presence, nonce format, hex decoding, attestation and stops at the first
\* that fails: 405 for a method other than GET, 400 for a form that does not
\* parse, for a missing nonce and for a badly formatted one, 500 when attest
\* fails, else 200; attest is invoked at most once, and only for a request
\* that passed every earlier check.
C11_ChecksInOrder ==
    \A r \in Reqs :
        /\ Answered(r) => resp[r].status = StatusOf(FirstFailure(r))
        /\ call[r].made => FirstFailure(r) \in {"attestation", "none"}
        /\ sess[r].opens <= 1 /\ sess[r].sends <= 1
        /\ (sess[r].opens > 0 \/ ret[r].returned) => call[r].made

\* The message the specification gives for each failure.
SpecMessage(failure) ==
    CASE failure = "method" -> "only GET requests are allowed"
      [] failure = "form" -> "failed to parse form data"
      [] failure = "missing" -> "missing nonce"
      [] failure = "format" -> "bad nonce format"
      [] failure = "attestation" -> "failed to obtain attestation document"
\* The message the handler writes for each failure.
HandlerMessage(failure) ==
    CASE failure = "method" -> "only HTTP GET requests are allowed"
      [] failure = "form" -> "failed to parse POST form data"
      [] failure = "missing" -> "could not find nonce in URL query parameters"
      [] failure = "format" -> "unexpected nonce format; must be 40-digit hex string"
      [] failure = "attestation" -> "failed to obtain attestation document from hypervisor"
\* The check at which the handler of r stopped, read from what it did.
StoppedAt(r) ==
    IF resp[r].status = 405 THEN "method"
    ELSE IF resp[r].status = 500 THEN "attestation"
    ELSE IF resp[r].status = 200 THEN "none"
    ELSE IF ~req[r].formOk THEN "form"
    ELSE IF QueryGet(req[r].query) = <<>> THEN "missing"
    ELSE "format"

\* C12 as stated: the body of each error response is the message the
\* specification gives for that failure.
C12_BodyIsSpecMessage ==
    \A r \in Reqs :
        (Answered(r) /\ StoppedAt(r) # "none")
            => resp[r].body[1] = SpecMessage(StoppedAt(r))

\* C12 amended: the body of each error response is the message the handler
\* has for that failure, followed by a newline: "only HTTP GET requests are
\* allowed" (405), "failed to parse POST form data", "could not find nonce in
\* URL query parameters", "unexpected nonce format; must be 40-digit hex
\* string" (400), "failed to obtain attestation document from hypervisor" (500).
C12_BodyIsHandlerMessage ==
    \A r \in Reqs :
        (Answered(r) /\ StoppedAt(r) # "none")
            => resp[r].body = <<HandlerMessage(StoppedAt(r)), "\n">>

C12_Witness ==
    \E r \in Reqs :
        /\ Answered(r)
        /\ req[r].method = "GET" /\ req[r].formOk /\ ~req[r].query.hasNonce
        /\ resp[r] = [status |-> 400,
                      body |-> <<"could not find nonce in URL query parameters", "\n">>]

\* Start is between the return of setupAcme and the serving state.
AfterSetupAcme ==
    useACME /\ startPc \in {"route", "proxyHTTP", "proxyHTTPS", "listen", "serve"}

\* C13: with external issuance setupAcme returns to Start without waiting for
\* the poller: wherever Start is between the return of setupAcme and the
\* serving state it can take its next step, whatever the poller and the cache
\* are doing; both goroutines have been started by then, the poller keeps
\* querying for as long as the cache is empty, and the challenge listener and
\* the poller can still take their steps once the enclave is serving.
C13_StartDoesNotWaitForPoller ==
    /\ AfterSetupAcme => ENABLED Start
    /\ (AfterSetupAcme \/ (useACME /\ startPc = "serving"))
           => /\ pollerPc # "off" /\ listenerPc # "off"
              /\ tlsConfig = DynamicTLS
              /\ ~cache.present => pollerPc = "query"
    /\ (useACME /\ startPc = "serving" /\ pollerPc = "query")
           => ENABLED (PollMiss \/ PollHit)
    /\ (useACME /\ startPc = "serving" /\ listenerPc = "listen")
           => ENABLED AcmeListener

\* The enclave serves while the cache is still empty after repeated queries.
C13_Witness ==
    /\ useACME /\ startPc = "serving"
    /\ steps = AllSteps
    /\ ~cache.present /\ polls = MaxPolls
    /\ pollerPc = "query" /\ listenerPc = "serving"

\* A failed query changes nothing but the count of queries: the poller stays
\* in its loop, and Start and the process are where they were.
FailedQueryIsHarmless ==
    /\ (pollerPc = "query" /\ ~cache.present) => pollerPc' = "query"
    /\ polls' # polls
           => /\ pollerPc = "query" /\ ~cache.present
              /\ UNCHANGED <<startPc, steps, certFpr, tlsConfig, handlerHash, routes>>
\* The poller enters setCertFingerprint from its query only, over the material
\* of the cache, and never queries again once it has.
PollerRunsOnce ==
    /\ (fCaller' = "poller" /\ fCaller # "poller")
           => /\ pollerPc = "query" /\ pollerPc' = "setFpr"
              /\ cache.present /\ fInput' = cache.data
    /\ pollerPc = "setFpr" => pollerPc' \in {"setFpr", "done"}
    /\ pollerPc = "done" => pollerPc' = "done"
\* The poller has finished over the material of the cache.
PollerFinished ==
    /\ pollerPc = "done"
    /\ cache.present
    /\ certFpr = Sha256(cache.data[FirstLeafCert(cache.data)].der)

\* C14: the poller repeats its query after every failure, a failed query
\* neither ends the process nor reaches Start; and, the poller being scheduled
\* fairly, once the cache holds material the poller runs setCertFingerprint
\* over it exactly once, certFpr then is the fingerprint of the first non-CA
\* certificate of the material, and the poller queries no more.
C14_PollerEventuallyFingerprints ==
    /\ [][FailedQueryIsHarmless /\ PollerRunsOnce]_vars
    /\ [](pollerPc = "query" /\ ~cache.present /\ Alive => ENABLED PollMiss)
    /\ (cache.present /\ Alive) ~> PollerFinished

C14_Witness ==
    /\ PollerFinished
    /\ polls = MaxPolls
    /\ Len(cache.data) = 3 /\ cache.data[3] = CACert("ca1")
    /\ certFpr = Sha256("leaf1")

\* What the handler answers to a request, from the request, from whether the
\* session with the device opened and from the device's reply.
ResponseOf(q, opened, reply) ==
    IF q.method # "GET" THEN HttpError(errMethodNotGET, 405)
    ELSE IF ~q.formOk THEN HttpError(errBadForm, 400)
    ELSE IF QueryGet(q.query) = <<>> THEN HttpError(errNoNonce, 400)
    ELSE IF ~MatchNonceRegExp(QueryGet(q.query)) \/ DecodeString(QueryGet(q.query)).err
         THEN HttpError(errBadNonceFormat, 400)
    ELSE IF ~opened \/ reply.error # "" \/ ~reply.hasAttestation \/ reply.document.isNil
         THEN HttpError(errFailedAttestation, 500)
    ELSE WriteDoc(reply.document.bytes)
\* A step of a request handler.
HandlerStep == \E r \in Reqs : hpc'[r] # hpc[r]

\* C15: a step of a request handler changes neither certFpr nor the TLS
\* configuration nor the routes; however requests interleave with one another
\* and with the poller, every call of attest and every request sent to the
\* device carries the value the endpoint captured when it was constructed,
\* which never changes afterwards; and the response to a request is a function
\* of that request and of the device's reply to it.
C15_RequestsShareCapturedUserData ==
    /\ [][HandlerStep => UNCHANGED <<certFpr, tlsConfig, routes, handlerHash, useACME, startPc>>]_vars
    /\ [][handlerHash # NoHandler => handlerHash' = handlerHash]_vars
    /\ [](\A r \in Reqs :
            /\ call[r].made => call[r].userData = handlerHash
            /\ sentReq[r].sent => /\ sentReq[r].UserData = handlerHash
                                  /\ sentReq[r].Nonce = DecodeString(QueryGet(req[r].query)).bytes
            /\ (Answered(r) /\ resp[r].body # <<>>)
                   => resp[r] = ResponseOf(req[r], sess[r].opens > 0, res[r]))

\* Two requests were sent to the device, one on each side of the poller's
\* write of certFpr.
C15_Witness ==
    /\ sentReq["r1"].sent /\ sentReq["r2"].sent
    /\ hpc["r1"] = "done" /\ resp["r1"].status = 200
    /\ hpc["r2"] = "checkError"
    /\ pollerPc = "done" /\ certFpr = Sha256("leaf1")
    /\ sentReq["r1"].UserData = sentReq["r2"].UserData

\* genSelfSignedCert has returned nil to Start.
GenSucceeded ==
    /\ ~useACME /\ gpc = "done"
    /\ ~(Len(steps) = 3 /\ startPc \in {"returnedErr", "fatal"})
\* genSelfSignedCert has returned an error to Start.
GenFailed ==
    ~useACME /\ gpc = "done" /\ Len(steps) = 3 /\ startPc = "returnedErr"

\* log.Fatal has ended the process inside genSelfSignedCert.
GenEndedProcess ==
    ~useACME /\ gpc = "done" /\ Len(steps) = 3 /\ startPc = "fatal"

\* C16: with a self-signed certificate, once genSelfSignedCert has returned
\* nil certFpr is the SHA-256 of the one certificate installed in the TLS
\* configuration, that certificate is no CA and names exactly the configured
\* FQDN, and neither certFpr nor the installed certificate changes from then
\* on; once genSelfSignedCert has returned an error (or ended the process) no
\* certificate is installed.
C16_SelfSignedFingerprintMatchesInstalled ==
    /\ [](GenSucceeded
            => /\ tlsConfig.kind = "static"
               /\ certFpr = Sha256(tlsConfig.cert)
               /\ Len(pemCert) = 1 /\ tlsConfig.cert = pemCert[1].der
               /\ ~pemCert[1].isCA
               /\ pemCert[1].dnsNames = <<cfgFQDN>>)
    /\ [][GenSucceeded => UNCHANGED <<certFpr, tlsConfig, pemCert>>]_vars
    /\ []((GenFailed \/ GenEndedProcess) => tlsConfig = NoTLS)

\* Start went on to serve after genSelfSignedCert returned nil.
C16_Witness ==
    /\ GenSucceeded /\ startPc = "serving"
    /\ tlsConfig = StaticTLS("selfsigned")
    /\ certFpr = Sha256("selfsigned")
    /\ \E r \in Reqs : Answered(r) /\ resp[r].status = 200

\* C17: under either provisioning strategy certFpr is written at most once
\* in the life of the process (it leaves its zero value once and is not
\* written again), and every write comes before the attestation endpoint, which
\* reads it, is constructed.
C17_FingerprintWrittenOnceBeforeEndpoint ==
    [][certFpr' # certFpr => (certFpr = ZeroFpr /\ handlerHash = NoHandler)]_vars

\* The nine methods AddRoute knows.
NineMethods ==
    {"GET", "HEAD", "POST", "PUT", "PATCH", "DELETE", "CONNECT", "OPTIONS", "TRACE"}

\* C18: AddRoute registers exactly the one route of its method and pattern
\* when the method is one of GET, HEAD, POST, PUT, PATCH, DELETE, CONNECT,
\* OPTIONS and TRACE, and leaves the router as it is for every other method;
\* no step that changes the routes changes certFpr or the TLS configuration.
C18_AddRouteRegistersOneRoute ==
    /\ [](\A method \in RouteMethods, pattern \in Patterns :
            switchMethod(routes, method, pattern)
                = IF method \in NineMethods
                  THEN routes \cup {<<method, pattern>>}
                  ELSE routes)
    /\ [][routes' # routes
            => /\ \E method \in NineMethods, pattern \in Patterns :
                    /\ <<method, pattern>> \notin routes
                    /\ routes' = routes \cup {<<method, pattern>>}
               /\ UNCHANGED <<certFpr, tlsConfig>>]_vars
    /\ [](\A rt \in routes : rt[1] \in NineMethods)

\* The application has added routes around the provisioning of a certificate.
C18_Witness ==
    /\ <<"PATCH", "/hello">> \in routes
    /\ <<"TRACE", "/attestation">> \in routes
    /\ AttestationRoute \in routes
    /\ startPc = "serving"
    /\ certFpr = Sha256(selfSignedDer) /\ tlsConfig = StaticTLS(selfSignedDer)

\* C19: setCertFingerprint returns on every finite buffer. The guard of its
\* loop tests the outer rest, which the body never assigns and which is never
\* nil; yet every iteration either returns or goes on with a strictly shorter
\* buffer, and so every call, run on, returns.
C19_SetCertFingerprintTerminates ==
    /\ [](~outerRest.isNil)
    /\ [](fpc = "loop" => Len(rawData) <= Len(fInput))
    /\ [][(fpc = "loop" /\ fpc' = "loop") => Len(rawData') < Len(rawData)]_vars
    /\ (fpc = "loop") ~> (fpc = "done")

\* A call that went through a whole buffer of CA certificates, block by block.
C19_Witness ==
    /\ fpc = "done"
    /\ Len(fInput) = 3 /\ OnlyCACerts(fInput)
    /\ rawData = <<>>
    /\ fResult = Failure(errNoPEM)

\* C20: when setCertFingerprint returns an error (no PEM block in what is left
\* of the input, or a CERTIFICATE block that does not parse) certFpr is what it
\* was before the call; during a call the field changes only on the step that
\* returns nil after finding a non-CA certificate, to the digest of it.
C20_ErrorLeavesFingerprint ==
    /\ []((fpc = "done" /\ fResult.isErr) => certFpr = fOldFpr)
    /\ [](fpc = "loop" => certFpr = fOldFpr)
    /\ [][certFpr' # certFpr
            => /\ fpc = "loop" /\ fpc' = "done" /\ ~fResult'.isErr
               /\ HasLeafCert(fInput)
               /\ certFpr' = Sha256(fInput[FirstLeafCert(fInput)].der)]_vars

\* A call on a buffer with a certificate that does not parse returned an
\* error, after an earlier call had set the fingerprint.
C20_Witness ==
    /\ fpc = "done"
    /\ fResult = Failure(errParseCertificate)
    /\ fInput = <<CACert("ca1"), BadCert("bad1"), LeafCert("leaf1")>>
    /\ fOldFpr = Sha256("leaf2")
    /\ certFpr = Sha256("leaf2")

====
